---- MODULE Spec2Model ----
(***************************************************************************)
(* goenv: locating and parsing .env files and reading the environment.     *)
(*                                                                         *)
(* Strings are sequences of one-character strings, so that trimming,       *)
(* splitting, quoting and key validation are computed character by         *)
(* character as the Go code does.  A path is a sequence of names, the      *)
(* empty sequence being the start directory ".".                           *)
(***************************************************************************)
EXTENDS Integers, Sequences, FiniteSets, TLC

VARIABLES
    dirs,      \* the directories of the file system (a set of paths)
    files,     \* the regular files: path -> sequence of lines
    env,       \* the process environment: key -> value
    inserted,  \* history: the keys os.Setenv was called with by the parser
    config,    \* the Config of the running LoadWithConfig call
    stack,     \* the loadFromDirectory activations, innermost first
    visited,   \* the visited map of the running LoadWithConfig call
    result,    \* the error value returned by the last Load*/Unload call
    trace,     \* history: directory reads and file parses of the last call
    ret,       \* the value returned by the last accessor call
    call,      \* the Load*/Unload call made last ("none" before the first)
    budget,    \* calls the caller may still make
    dirsQueue  \* the queue of the Load of goenv.go while it runs

vars ==
    <<dirs, files, env, inserted, config, stack, visited, result, trace, ret, call, budget,
      dirsQueue>>

----------------------------------------------------------------------------
(* Bounds of the model *)

MaxLineLen == 4
MaxLines == 3
MaxValLen == 3
MaxDepthBound == 1
MaxFiles == 2
MaxCalls == 2

\* const MaxDepth
MaxDepth == 10

----------------------------------------------------------------------------
(* Characters *)

UpperSeq == <<"A", "B", "C", "D", "E", "F", "G", "H", "I", "J", "K", "L", "M",
              "N", "O", "P", "Q", "R", "S", "T", "U", "V", "W", "X", "Y", "Z">>

LowerSeq == <<"a", "b", "c", "d", "e", "f", "g", "h", "i", "j", "k", "l", "m",
              "n", "o", "p", "q", "r", "s", "t", "u", "v", "w", "x", "y", "z">>

UpperCase == {UpperSeq[i] : i \in 1..Len(UpperSeq)}

LowerCase == {LowerSeq[i] : i \in 1..Len(LowerSeq)}

Digits == {"0", "1", "2", "3", "4", "5", "6", "7", "8", "9"}

\* unicode.IsSpace, for the characters the model uses
IsSpace(c) == c \in {" ", "\t", "\r"}

DigitVal(c) ==
    CASE c = "0" -> 0 [] c = "1" -> 1 [] c = "2" -> 2 [] c = "3" -> 3
      [] c = "4" -> 4 [] c = "5" -> 5 [] c = "6" -> 6 [] c = "7" -> 7
      [] c = "8" -> 8 [] c = "9" -> 9

----------------------------------------------------------------------------
(* package strings *)

RECURSIVE TrimLeft(_)
TrimLeft(s) == IF s # <<>> /\ IsSpace(Head(s)) THEN TrimLeft(Tail(s)) ELSE s

RECURSIVE TrimRight(_)
TrimRight(s) ==
    IF s # <<>> /\ IsSpace(s[Len(s)]) THEN TrimRight(SubSeq(s, 1, Len(s) - 1)) ELSE s

TrimSpace(s) == TrimRight(TrimLeft(s))

HasPrefix(s, p) == Len(s) >= Len(p) /\ SubSeq(s, 1, Len(p)) = p

HasSuffix(s, p) == Len(s) >= Len(p) /\ SubSeq(s, Len(s) - Len(p) + 1, Len(s)) = p

\* strings.Index for a one-character separator: 0 when absent
RECURSIVE IndexFrom(_, _, _)
IndexFrom(s, c, i) ==
    IF i > Len(s) THEN 0
    ELSE IF s[i] = c THEN i
    ELSE IndexFrom(s, c, i + 1)

\* strings.SplitN(s, sep, 2): one part when sep is absent, else the text
\* before the first sep and everything after it
SplitN2(s, c) ==
    LET i == IndexFrom(s, c, 1)
    IN  IF i = 0 THEN <<s>>
        ELSE <<SubSeq(s, 1, i - 1), SubSeq(s, i + 1, Len(s))>>

----------------------------------------------------------------------------
(* Errors.  NilErr is Go's nil error. *)

NoPath == <<>>

Err(kind, path, line, text, cause) ==
    [kind |-> kind, path |-> path, line |-> line, text |-> text, cause |-> cause]

NilErr == Err("nil", NoPath, 0, <<>>, "")

----------------------------------------------------------------------------
(* The process environment: a set of <<key, value>> pairs, one per key *)

EnvKeys(e) == {p[1] : p \in e}

\* os.LookupEnv
LookupEnv(e, key) ==
    IF key \in EnvKeys(e)
    THEN [val |-> (CHOOSE p \in e : p[1] = key)[2], exists |-> TRUE]
    ELSE [val |-> <<>>, exists |-> FALSE]

\* os.Setenv rejects an empty key and a key holding "="
SetenvFails(key) == key = <<>> \/ IndexFrom(key, "=", 1) # 0

setenvKeepsOldValue(e, key, value) ==
    IF key \in EnvKeys(e) THEN e ELSE e \cup {<<key, value>>}

\* os.Setenv: the key has the new value, whatever it had before
Setenv(e, key, value) == {p \in e : p[1] # key} \cup {<<key, value>>}

Unsetenv(e, key) == {p \in e : p[1] # key}

----------------------------------------------------------------------------
(* The line parser *)

IsLetterOrUnderscore(c) == c \in UpperCase \/ c \in LowerCase \/ c = "_"

isValidEnvKeyDigitFirst(key) ==
    /\ key # <<>>
    /\ \A i \in 1..Len(key) : IsLetterOrUnderscore(key[i]) \/ key[i] \in Digits

isValidEnvKey(key) ==
    /\ key # <<>>
    /\ \A i \in 1..Len(key) :
          IF i = 1
          THEN IsLetterOrUnderscore(key[i])
          ELSE IsLetterOrUnderscore(key[i]) \/ key[i] \in Digits

IsQuoted(value, q) == HasPrefix(value, <<q>>) /\ HasSuffix(value, <<q>>)

unquoteKeepQuotes(value) == value

\* "Handle quoted values" of parseAndSetEnvVar
unquote(value) ==
    IF Len(value) >= 2 /\ (IsQuoted(value, "\"") \/ IsQuoted(value, "'"))
    THEN SubSeq(value, 2, Len(value) - 1)
    ELSE value

parseAndSetEnvVarUnvalidated(line, filePath, lineNum, e) ==
    LET parts == SplitN2(line, "=")
    IN  IF Len(parts) # 2
        THEN [env |-> e, set |-> {},
              err |-> Err("invalid format", filePath, lineNum, line, "")]
        ELSE LET key   == TrimSpace(parts[1])
                 value == unquote(TrimSpace(parts[2]))
             IN  IF SetenvFails(key)
                 THEN [env |-> e, set |-> {},
                       err |-> Err("setenv", filePath, lineNum, key, "")]
                 ELSE [env |-> Setenv(e, key, value), set |-> {key}, err |-> NilErr]

\* The outcome of one line: the environment after it, the error, and the keys
\* it set
parseAndSetEnvVar(line, filePath, lineNum, e) ==
    LET parts == SplitN2(line, "=")
    IN  IF Len(parts) # 2
        THEN [env |-> e, set |-> {},
              err |-> Err("invalid format", filePath, lineNum, line, "")]
        ELSE LET key   == TrimSpace(parts[1])
                 value == unquote(TrimSpace(parts[2]))
             IN  IF ~isValidEnvKey(key)
                 THEN [env |-> e, set |-> {},
                       err |-> Err("invalid environment variable name",
                                   filePath, lineNum, key, "")]
                 ELSE IF SetenvFails(key)
                 THEN [env |-> e, set |-> {},
                       err |-> Err("setenv", filePath, lineNum, key, "")]
                 ELSE [env |-> Setenv(e, key, value), set |-> {key}, err |-> NilErr]

\* The outcomes of the I/O on a file of n lines: the open fails, or the
\* scanner delivers every line (failAt = -1), or it delivers failAt lines and
\* then reports a read error.
IOOutcomes(n) ==
    {[open |-> FALSE, failAt |-> -1]} \cup {[open |-> TRUE, failAt |-> j] : j \in -1..n}

\* "Skip empty lines and comments"
skipsLine(line) == line = <<>> \/ HasPrefix(line, <<"#">>)

\* The scanner loop of loadVarsFromFile from line i on
RECURSIVE scanLoop(_, _, _, _, _, _)
scanLoop(path, lines, i, e, set, failAt) ==
    IF failAt = i - 1
    THEN [env |-> e, set |-> set, err |-> Err("read", path, 0, <<>>, "")]
    ELSE IF i > Len(lines)
    THEN [env |-> e, set |-> set, err |-> NilErr]
    ELSE LET line == TrimSpace(lines[i])
         IN  IF skipsLine(line)
             THEN scanLoop(path, lines, i + 1, e, set, failAt)
             ELSE LET r == parseAndSetEnvVar(line, path, i, e)
                  IN  IF r.err # NilErr
                      THEN [env |-> r.env, set |-> set \cup r.set, err |-> r.err]
                      ELSE scanLoop(path, lines, i + 1, r.env, set \cup r.set, failAt)

loadVarsFromFileRollsBack(path, e, io) ==
    IF path \notin DOMAIN files \cup dirs \/ ~io.open
    THEN [env |-> e, set |-> {}, err |-> Err("open", path, 0, <<>>, "")]
    ELSE IF path \in dirs
    THEN [env |-> e, set |-> {}, err |-> Err("read", path, 0, <<>>, "")]
    ELSE LET r == scanLoop(path, files[path], 1, e, {}, io.failAt)
         IN  IF r.err # NilErr THEN [r EXCEPT !.env = e] ELSE r

loadVarsFromFileIgnoringIO(path, e, io) ==
    IF path \notin DOMAIN files \cup dirs \/ ~io.open \/ path \in dirs
    THEN [env |-> e, set |-> {}, err |-> NilErr]
    ELSE LET r == scanLoop(path, files[path], 1, e, {}, io.failAt)
         IN  IF r.err.kind = "read" THEN [r EXCEPT !.err = NilErr] ELSE r

\* os.Open succeeds on a directory; the first read of it fails
loadVarsFromFile(path, e, io) ==
    IF path \notin DOMAIN files \cup dirs \/ ~io.open
    THEN [env |-> e, set |-> {}, err |-> Err("open", path, 0, <<>>, "")]
    ELSE IF path \in dirs
    THEN [env |-> e, set |-> {}, err |-> Err("read", path, 0, <<>>, "")]
    ELSE scanLoop(path, files[path], 1, e, {}, io.failAt)

FileIO(path) == IF path \in DOMAIN files THEN IOOutcomes(Len(files[path])) ELSE IOOutcomes(0)

----------------------------------------------------------------------------
(* The typed accessors *)

Word_true  == <<"t", "r", "u", "e">>
Word_false == <<"f", "a", "l", "s", "e">>

ToLower(c) ==
    IF c \in UpperCase THEN LowerSeq[CHOOSE i \in 1..Len(UpperSeq) : UpperSeq[i] = c] ELSE c

ToUpper(c) ==
    IF c \in LowerCase THEN UpperSeq[CHOOSE i \in 1..Len(LowerSeq) : LowerSeq[i] = c] ELSE c

\* The spellings of w in every mix of upper and lower case
CaseVariants(w) ==
    {s \in [1..Len(w) -> {ToLower(w[i]) : i \in 1..Len(w)} \cup {ToUpper(w[i]) : i \in 1..Len(w)}] :
        \A i \in 1..Len(w) : ToLower(s[i]) = ToLower(w[i])}

ParseBoolAnyCase(str) ==
    IF str \in {<<"1">>} \cup CaseVariants(<<"t">>) \cup CaseVariants(Word_true)
    THEN [val |-> TRUE, ok |-> TRUE]
    ELSE IF str \in {<<"0">>} \cup CaseVariants(<<"f">>) \cup CaseVariants(Word_false)
    THEN [val |-> FALSE, ok |-> TRUE]
    ELSE [val |-> FALSE, ok |-> FALSE]

\* strconv.ParseBool
ParseBool(str) ==
    IF str \in {<<"1">>, <<"t">>, <<"T">>, <<"T", "R", "U", "E">>, Word_true,
                <<"T", "r", "u", "e">>}
    THEN [val |-> TRUE, ok |-> TRUE]
    ELSE IF str \in {<<"0">>, <<"f">>, <<"F">>, <<"F", "A", "L", "S", "E">>, Word_false,
                     <<"F", "a", "l", "s", "e">>}
    THEN [val |-> FALSE, ok |-> TRUE]
    ELSE [val |-> FALSE, ok |-> FALSE]

RECURSIVE DigitsValue(_, _)
DigitsValue(s, n) == IF s = <<>> THEN n ELSE DigitsValue(Tail(s), n * 10 + DigitVal(Head(s)))

RECURSIVE DigitPrefix(_)
DigitPrefix(s) ==
    IF s # <<>> /\ Head(s) \in Digits THEN <<Head(s)>> \o DigitPrefix(Tail(s)) ELSE <<>>

AtoiLeadingDigits(s) ==
    LET signed == s # <<>> /\ s[1] \in {"-", "+"}
        body   == DigitPrefix(IF signed THEN Tail(s) ELSE s)
    IN  IF body = <<>>
        THEN [val |-> 0, ok |-> FALSE]
        ELSE [val |-> IF signed /\ s[1] = "-"
                      THEN 0 - DigitsValue(body, 0)
                      ELSE DigitsValue(body, 0),
              ok |-> TRUE]

\* strconv.Atoi on a string shorter than 19 characters: an optional sign,
\* then one or more decimal digits and nothing else
Atoi(s) ==
    LET signed == s # <<>> /\ s[1] \in {"-", "+"}
        body   == IF signed THEN Tail(s) ELSE s
    IN  IF body = <<>> \/ \E i \in 1..Len(body) : body[i] \notin Digits
        THEN [val |-> 0, ok |-> FALSE]
        ELSE [val |-> IF signed /\ s[1] = "-"
                      THEN 0 - DigitsValue(body, 0)
                      ELSE DigitsValue(body, 0),
              ok |-> TRUE]

GetString(key, fallback) ==
    LET l == LookupEnv(env, key) IN IF l.exists THEN l.val ELSE fallback

GetInt(key, fallback) ==
    LET l == LookupEnv(env, key)
    IN  IF ~l.exists THEN fallback
        ELSE IF Atoi(l.val).ok THEN Atoi(l.val).val
        ELSE fallback

GetBoolFalseOnError(key, fallback) ==
    LET l == LookupEnv(env, key)
    IN  IF ~l.exists THEN fallback ELSE ParseBool(l.val).val

GetBool(key, fallback) ==
    LET l == LookupEnv(env, key)
    IN  IF ~l.exists THEN fallback
        ELSE IF ParseBool(l.val).ok THEN ParseBool(l.val).val
        ELSE fallback

\* A float64 that a short decimal text denotes exactly enough: num / 10^scale,
\* with no trailing zero in the fraction
RECURSIVE Float(_, _)
Float(num, scale) ==
    IF scale > 0 /\ num % 10 = 0 THEN Float(num \div 10, scale - 1)
    ELSE [num |-> num, scale |-> scale]

\* strconv.ParseFloat(s, 64) on a short text without exponent, special word
\* (inf, nan), hexadecimal prefix or underscore: an optional sign, then
\* decimal digits with at most one point among them and at least one digit
ParseFloat(s) ==
    LET signed == s # <<>> /\ s[1] \in {"-", "+"}
        body   == IF signed THEN Tail(s) ELSE s
        points == {i \in 1..Len(body) : body[i] = "."}
        digits == SelectSeq(body, LAMBDA c : c \in Digits)
    IN  IF \/ digits = <<>>
           \/ Cardinality(points) > 1
           \/ \E i \in 1..Len(body) : body[i] \notin Digits \cup {"."}
        THEN [val |-> Float(0, 0), ok |-> FALSE]
        ELSE LET scale == IF points = {} THEN 0
                          ELSE Len(body) - (CHOOSE i \in points : TRUE)
                 n     == DigitsValue(digits, 0)
             IN  [val |-> Float(IF signed /\ s[1] = "-" THEN 0 - n ELSE n, scale),
                  ok |-> TRUE]

GetFloat(key, fallback) ==
    LET l == LookupEnv(env, key)
    IN  IF ~l.exists THEN fallback
        ELSE IF ParseFloat(l.val).ok THEN ParseFloat(l.val).val
        ELSE fallback

MustGetStringPanicOnEmpty(key) ==
    LET l == LookupEnv(env, key)
    IN  IF ~l.exists \/ l.val = <<>> THEN [panic |-> TRUE, val |-> <<>>]
        ELSE [panic |-> FALSE, val |-> l.val]

\* The string returned, or the panic
MustGetString(key) ==
    LET l == LookupEnv(env, key)
    IN  IF ~l.exists THEN [panic |-> TRUE, val |-> <<>>]
        ELSE [panic |-> FALSE, val |-> l.val]

----------------------------------------------------------------------------
(* The file system *)

NoFiles == [p \in {} |-> <<>>]

\* DefaultEnvFile
EnvName == <<".", "e", "n", "v">>

\* No accessor has returned since the last call
NoRet == [op |-> "none", key |-> <<>>, fallback |-> <<>>, val |-> <<>>, panic |-> FALSE]

\* No LoadWithConfig call has been made
NoConfig == [EnvFiles |-> <<>>, MaxDepth |-> 0, StopOnFirst |-> FALSE]

\* No LoadWithConfig call is in progress
Idle == stack = <<>>

\* The caller may make a call that changes the environment: none is in
\* progress, and no read has been recorded yet (the reads change nothing, so
\* the model records one read of a state and does not go on from it)
MayCall == Idle /\ ret = NoRet /\ budget > 0

\* filepath.Join(dir, name)
Join(dir, name) == Append(dir, name)

Parent(path) == SubSeq(path, 1, Len(path) - 1)

Base(path) == path[Len(path)]

\* fileExists: os.Stat succeeds and the path is no directory
fileExistsDefaultNameOnly(path) == path \in DOMAIN files /\ path[Len(path)] = EnvName

fileExists(path) == path \in DOMAIN files

\* Byte order of the characters that names are made of
CharRank(c) ==
    IF c = "." THEN 0
    ELSE IF c \in LowerCase THEN CHOOSE i \in 1..Len(LowerSeq) : LowerSeq[i] = c
    ELSE 100

RECURSIVE NameLess(_, _)
NameLess(s, t) ==
    IF s = <<>> THEN t # <<>>
    ELSE IF t = <<>> THEN FALSE
    ELSE IF s[1] # t[1] THEN CharRank(s[1]) < CharRank(t[1])
    ELSE NameLess(Tail(s), Tail(t))

RECURSIVE SortNames(_)
SortNames(S) ==
    IF S = {} THEN <<>>
    ELSE LET m == CHOOSE x \in S : \A y \in S \ {x} : NameLess(x, y)
         IN  <<m>> \o SortNames(S \ {m})

Children(dir) == {p \in dirs \cup DOMAIN files : p # <<>> /\ Parent(p) = dir}

readDirEntriesDescending(dir) ==
    LET names == SortNames({Base(p) : p \in Children(dir)})
    IN  [i \in 1..Len(names) |->
            [name  |-> names[Len(names) + 1 - i],
             isDir |-> Join(dir, names[Len(names) + 1 - i]) \in dirs]]

\* os.ReadDir(dir): the entries of dir sorted by file name
ReadDirEntries(dir) ==
    LET names == SortNames({Base(p) : p \in Children(dir)})
    IN  [i \in 1..Len(names) |->
            [name |-> names[i], isDir |-> Join(dir, names[i]) \in dirs]]

----------------------------------------------------------------------------
(* loadFromDirectory, one activation record per call in progress *)

Frame(dir, depth) == [dir |-> dir, depth |-> depth, pc |-> "enter", i |-> 1, entries |-> <<>>]

Top == stack[1]

Event(op, path, depth, err) ==
    [op |-> op, path |-> path, depth |-> depth, before |-> env, err |-> err]

\* history: the parse of a candidate file, with what the I/O on it did
FileEvent(path, depth, err, io) ==
    [op |-> "parse", path |-> path, depth |-> depth, before |-> env, err |-> err, io |-> io]

tooDeepByTwo(depth) == depth > config.MaxDepth + 1

\* if depth > config.MaxDepth
tooDeep(depth) == depth > config.MaxDepth

isHiddenNever(name) == FALSE

\* strings.HasPrefix(entry.Name(), ".")
isHidden(name) == HasPrefix(name, <<".">>)

returnNilKeepsFrame == UNCHANGED <<stack, result>>

\* return nil from the innermost activation: its caller goes on with its loop
ReturnNil ==
    /\ stack' = Tail(stack)
    /\ result' = IF Tail(stack) = <<>> THEN NilErr ELSE result

returnErrToCallerOnly(err) ==
    /\ stack' = Tail(stack)
    /\ result' = IF Tail(stack) = <<>> THEN err ELSE result

\* return err: every caller returns it unchanged
ReturnErr(err) ==
    /\ stack' = <<>>
    /\ result' = err

Running == Err("running", NoPath, 0, <<>>, "")

\* LoadWithConfig(config)
LoadWithConfig(cfg, name) ==
    /\ MayCall
    /\ config' = cfg
    /\ stack' = <<Frame(<<>>, 0)>>
    /\ visited' = {}
    /\ result' = Running
    /\ trace' = <<>>
    /\ ret' = NoRet
    /\ call' = name
    /\ budget' = budget - 1
    /\ UNCHANGED <<dirsQueue, dirs, files, env, inserted>>

DefaultConfig == [EnvFiles |-> <<EnvName>>, MaxDepth |-> MaxDepth, StopOnFirst |-> TRUE]

\* Load()
Load == LoadWithConfig(DefaultConfig, "Load")

\* The depth check and the visited check at the head of loadFromDirectory
Enter ==
    /\ stack # <<>>
    /\ Top.pc = "enter"
    /\ IF tooDeep(Top.depth) \/ Top.dir \in visited
       THEN ReturnNil /\ UNCHANGED visited
       ELSE /\ visited' = visited \cup {Top.dir}
            /\ stack' = <<[Top EXCEPT !.pc = "files"]>> \o Tail(stack)
            /\ UNCHANGED result
    /\ UNCHANGED <<dirsQueue, dirs, files, env, inserted, config, trace, ret, call, budget>>

\* One iteration of "for _, envFile := range config.EnvFiles"
CheckEnvFile ==
    /\ stack # <<>>
    /\ Top.pc = "files"
    /\ Top.i <= Len(config.EnvFiles)
    /\ LET envPath == Join(Top.dir, config.EnvFiles[Top.i])
           next    == <<[Top EXCEPT !.i = Top.i + 1]>> \o Tail(stack)
       IN  IF ~fileExists(envPath)
           THEN /\ stack' = next
                /\ UNCHANGED <<env, inserted, result, trace>>
           ELSE \E io \in FileIO(envPath) :
                  LET r == loadVarsFromFile(envPath, env, io)
                  IN  /\ env' = r.env
                      /\ inserted' = inserted \cup r.set
                      /\ trace' = Append(trace, FileEvent(envPath, Top.depth, r.err.kind, io))
                      /\ IF r.err # NilErr
                         THEN ReturnErr(Err("failed to load", envPath, r.err.line,
                                            r.err.text, r.err.kind))
                         ELSE IF config.StopOnFirst
                         THEN ReturnNil
                         ELSE stack' = next /\ UNCHANGED result
    /\ UNCHANGED <<dirsQueue, dirs, files, config, visited, ret, call, budget>>

\* entries, err := os.ReadDir(dir)
ReadDir ==
    /\ stack # <<>>
    /\ Top.pc = "files"
    /\ Top.i > Len(config.EnvFiles)
    /\ \E ok \in BOOLEAN :
          IF ok
          THEN /\ stack' = <<[Top EXCEPT !.pc = "subdirs", !.i = 1,
                                         !.entries = ReadDirEntries(Top.dir)]>>
                            \o Tail(stack)
               /\ trace' = Append(trace, Event("readdir", Top.dir, Top.depth, "nil"))
               /\ UNCHANGED result
          ELSE /\ ReturnErr(Err("failed to read directory", Top.dir, 0, <<>>, "read"))
               /\ trace' = Append(trace, Event("readdir", Top.dir, Top.depth, "read"))
    /\ UNCHANGED <<dirsQueue, dirs, files, env, inserted, config, visited, ret, call, budget>>

\* One iteration of "for _, entry := range entries", and the return after it
Descend ==
    /\ stack # <<>>
    /\ Top.pc = "subdirs"
    /\ IF Top.i > Len(Top.entries)
       THEN ReturnNil
       ELSE LET entry == Top.entries[Top.i]
                next  == [Top EXCEPT !.i = Top.i + 1]
            IN  /\ stack' = IF entry.isDir /\ ~isHidden(entry.name)
                             THEN <<Frame(Join(Top.dir, entry.name), Top.depth + 1), next>>
                                  \o Tail(stack)
                             ELSE <<next>> \o Tail(stack)
                /\ UNCHANGED result
    /\ UNCHANGED <<dirsQueue, dirs, files, env, inserted, config, visited, trace, ret, call, budget>>

unsetFirstOnly(e, keys) == IF keys = <<>> THEN e ELSE Unsetenv(e, Head(keys))

\* The loop of Unload; os.Unsetenv returns nil for every key
RECURSIVE unsetAll(_, _)
unsetAll(e, keys) == IF keys = <<>> THEN e ELSE unsetAll(Unsetenv(e, Head(keys)), Tail(keys))

\* history: the argument of an Unload call and the environment it found
UnloadEvent(keys) == [op |-> "unload", path |-> keys, depth |-> 0, before |-> env, err |-> "nil"]

\* Unload(keys)
Unload(keys) ==
    /\ MayCall
    /\ env' = unsetAll(env, keys)
    /\ result' = NilErr
    /\ trace' = <<UnloadEvent(keys)>>
    /\ ret' = NoRet
    /\ call' = "Unload"
    /\ budget' = budget - 1
    /\ UNCHANGED <<dirsQueue, dirs, files, inserted, config, stack, visited>>

----------------------------------------------------------------------------
(* Calls made by the program that uses the package *)

\* history: the file LoadFile was given, the environment it found, what the
\* I/O did and the kind of error returned
ParseEvent(path, before, r, io) ==
    [op |-> "parse", path |-> path, depth |-> 0, before |-> before, err |-> r.err.kind,
     io |-> io]

\* LoadFile(path)
LoadFile(path) ==
    /\ MayCall
    /\ \E io \in FileIO(path) :
          LET r == loadVarsFromFile(path, env, io)
          IN  /\ env' = r.env
              /\ inserted' = inserted \cup r.set
              /\ result' = r.err
              /\ trace' = <<ParseEvent(path, env, r, io)>>
    /\ ret' = NoRet
    /\ call' = "LoadFile"
    /\ budget' = budget - 1
    /\ UNCHANGED <<dirsQueue, dirs, files, config, stack, visited>>

\* An accessor call and what it returned
Returned(op, key, fallback, val, panic) ==
    /\ Idle
    /\ ret = NoRet
    /\ ret' = [op |-> op, key |-> key, fallback |-> fallback, val |-> val, panic |-> panic]
    /\ UNCHANGED <<dirsQueue, dirs, files, env, inserted, config, stack, visited, result, trace, call,
                   budget>>

GetStringCall(key, fallback) ==
    Returned("GetString", key, fallback, GetString(key, fallback), FALSE)

GetIntCall(key, fallback) ==
    Returned("GetInt", key, fallback, GetInt(key, fallback), FALSE)

GetBoolCall(key, fallback) ==
    Returned("GetBool", key, fallback, GetBool(key, fallback), FALSE)

GetFloatCall(key, fallback) ==
    Returned("GetFloat", key, fallback, GetFloat(key, fallback), FALSE)

MustGetStringCall(key) ==
    Returned("MustGetString", key, <<>>, MustGetString(key).val, MustGetString(key).panic)

----------------------------------------------------------------------------
(* Inputs *)

Strings(chars, n) == UNION {[1..k -> chars] : k \in 0..n}

SeqsUpTo(S, n) == UNION {[1..k -> S] : k \in 0..n}

Key_A == <<"A">>

\* The keys the accessors are asked for: those present and one that never is
ProbeKeys == EnvKeys(env) \cup {<<"Z", "Z">>}

FallbackStrings == {<<"f", "b">>}

FallbackInts == {10, -7}

\* 1.5
FallbackFloat == Float(15, 1)

InitEnvs == {{}, {<<Key_A, <<"o", "l", "d">>>>}}

ParseChars == {"A", "1", "=", "\"", "'", " "}

SampleLines ==
    { <<"A", "=", "\"", "x", "=", "y", "\"">>,
      <<" ", "A", " ", "=", " ", "'", " ", "x", " ", "'", " ">>,
      <<"B", "=">>,
      <<"#", "A", "=", "3">>,
      <<" ">>,
      <<"B", "A", "D">>,
      <<"A", "-", "B", "=", "1">> }

FileInputs ==
    {<<l>> : l \in Strings(ParseChars, MaxLineLen)} \cup SeqsUpTo(SampleLines, MaxLines)

FilePath == <<EnvName>>

LoadPaths == {FilePath, <<>>, <<<<"n", "o">>>>}

----------------------------------------------------------------------------
(* LoadFile on one file of arbitrary content, then the string accessors *)

InitFile ==
    /\ dirs = {<<>>}
    /\ files \in {[p \in {FilePath} |-> c] : c \in FileInputs}
    /\ env \in InitEnvs
    /\ inserted = {}
    /\ config = NoConfig
    /\ stack = <<>>
    /\ visited = {}
    /\ result = NilErr
    /\ trace = <<>>
    /\ ret = NoRet
    /\ call = "none"
    /\ budget = 1
    /\ dirsQueue = <<>>

NextFile ==
    \/ \E path \in LoadPaths : LoadFile(path)
    \/ \E key \in ProbeKeys, fallback \in FallbackStrings : GetStringCall(key, fallback)

SpecFile == InitFile /\ [][NextFile]_vars

----------------------------------------------------------------------------
(* The accessors on one variable of arbitrary value *)

AccChars == {"0", "1", "7", "-", "+", " ", "t", "x", "."}

SampleValues ==
    { <<"n", "o", "t", "-", "a", "-", "n", "u", "m", "b", "e", "r">>,
      <<"i", "n", "v", "a", "l", "i", "d">>,
      <<"y", "e", "s">> }

AccValues ==
    Strings(AccChars, MaxValLen) \cup SampleValues
        \cup CaseVariants(Word_true) \cup CaseVariants(Word_false)
        \cup CaseVariants(<<"t">>) \cup CaseVariants(<<"f">>)

InitAcc ==
    /\ dirs = {<<>>}
    /\ files = NoFiles
    /\ env \in {{}} \cup {{<<Key_A, v>>} : v \in AccValues}
    /\ inserted = {}
    /\ config = NoConfig
    /\ stack = <<>>
    /\ visited = {}
    /\ result = NilErr
    /\ trace = <<>>
    /\ ret = NoRet
    /\ call = "none"
    /\ budget = 0
    /\ dirsQueue = <<>>

NextAcc ==
    \/ \E key \in ProbeKeys, fallback \in FallbackStrings : GetStringCall(key, fallback)
    \/ \E key \in ProbeKeys, fallback \in FallbackInts : GetIntCall(key, fallback)
    \/ \E key \in ProbeKeys, fallback \in BOOLEAN : GetBoolCall(key, fallback)
    \/ \E key \in ProbeKeys : GetFloatCall(key, FallbackFloat)
    \/ \E key \in ProbeKeys : MustGetStringCall(key)

SpecAcc == InitAcc /\ [][NextAcc]_vars

----------------------------------------------------------------------------
(* One LoadWithConfig or Load call on a directory tree *)

Dir_a == <<"a">>
Dir_b == <<"b">>
Dir_g == <<".", "g">>

EnvLocalName == <<".", "e", "n", "v", ".", "l", "o", "c", "a", "l">>

\* The directories a tree may hold: two siblings with a subdirectory each,
\* a hidden directory, and a chain three levels deep
TreeDirs ==
    { <<>>, <<Dir_a>>, <<Dir_b>>, <<Dir_g>>,
      <<Dir_a, Dir_a>>, <<Dir_b, Dir_a>>,
      <<Dir_a, Dir_a, Dir_a>> }

Slots == {Join(d, n) : d \in TreeDirs, n \in {EnvName, EnvLocalName}}

RECURSIVE SubsetsUpTo(_, _)
SubsetsUpTo(S, n) ==
    IF n = 0 THEN {{}}
    ELSE LET P == SubsetsUpTo(S, n - 1) IN P \cup {q \cup {x} : q \in P, x \in S}

\* The directories on the way to the files of F
Ancestors(F) == {<<>>} \cup UNION {{SubSeq(f, 1, k) : k \in 0..(Len(f) - 1)} : f \in F}

\* Every file assigns the shared key S and a key of its own, named after
\* its path; a malformed file commits its own key and then fails
PathTag(path) == [i \in 1..Len(path) |-> path[i][Len(path[i])]]

SharedKey == <<"S">>

OwnKey(path) == <<"K">> \o PathTag(path)

GoodText(path) == <<SharedKey \o <<"=">> \o PathTag(path), OwnKey(path) \o <<"=", "1">>>>

BadText(path) ==
    <<OwnKey(path) \o <<"=", "1">>, <<"9", "K", "=", "1">>, SharedKey \o <<"=">> \o PathTag(path)>>

FileSystems ==
    UNION { { [dirs  |-> Ancestors(F),
               files |-> [f \in F |-> IF f \in B THEN BadText(f) ELSE GoodText(f)]] :
              B \in {{}} \cup {{f} : f \in F} } :
            F \in SubsetsUpTo(Slots, MaxFiles) }

EnvFilesChoices ==
    {<<EnvName>>, <<EnvName, EnvLocalName>>, <<EnvLocalName, EnvName>>, <<EnvName, EnvName>>}

Configs == [EnvFiles : EnvFilesChoices, MaxDepth : 0..MaxDepthBound, StopOnFirst : BOOLEAN]

InitWalk ==
    /\ \E fs \in FileSystems : dirs = fs.dirs /\ files = fs.files
    /\ env = {}
    /\ inserted = {}
    /\ config = NoConfig
    /\ stack = <<>>
    /\ visited = {}
    /\ result = NilErr
    /\ trace = <<>>
    /\ ret = NoRet
    /\ call = "none"
    /\ budget = 1
    /\ dirsQueue = <<>>

NextWalk ==
    \/ \E cfg \in Configs : LoadWithConfig(cfg, "LoadWithConfig")
    \/ Load
    \/ Enter
    \/ CheckEnvFile
    \/ ReadDir
    \/ Descend

SpecWalk == InitWalk /\ [][NextWalk]_vars

\* A step of the running call: the code is sequential and blocks on nothing
\* but I/O that completes, so the call in progress always takes its next step
WalkStep == Enter \/ CheckEnvFile \/ ReadDir \/ Descend

\* The trees of FileSystems as far as their shape goes: one well-formed or
\* malformed file, or a full tree with a well-formed file in every directory
LiveFileSystems ==
    {fs \in FileSystems : Cardinality(DOMAIN fs.files) <= 1}
    \cup {[dirs |-> TreeDirs, files |-> [f \in {Join(d, EnvName) : d \in TreeDirs} |-> GoodText(f)]]}

InitWalkLive ==
    /\ InitWalk
    /\ \E fs \in LiveFileSystems : dirs = fs.dirs /\ files = fs.files

SpecWalkLive == InitWalkLive /\ [][NextWalk]_vars /\ WF_vars(WalkStep)

----------------------------------------------------------------------------
(* Any sequence of calls on a small tree *)

\* File texts with well-formed lines and a malformed line of each kind
SeqTexts ==
    { <<<<"_", "a", "1", "=", "x">>, <<"A", "=", "\"", "q", "\"">>, <<"1", "A", "=", "1">>>>,
      <<<<"#", "c">>, <<"S", "=">>, <<"A", "-", "B", "=", "1">>>>,
      <<<<"A", " ", "=", " ", "7">>, <<"=", "v">>, <<"n", "o">>>> }

SeqFileSets ==
    { {},
      {<<EnvName>>},
      {<<Dir_a, EnvName>>, <<Dir_b, EnvLocalName>>} }

SeqFileSystems ==
    UNION { { [dirs |-> Ancestors(F), files |-> t] : t \in [F -> SeqTexts] } : F \in SeqFileSets }

SeqConfigs ==
    { [EnvFiles |-> <<EnvName, EnvLocalName>>, MaxDepth |-> MaxDepthBound, StopOnFirst |-> b] :
        b \in BOOLEAN }

\* The keys the accessors and Unload are asked for
SeqKeys == {Key_A, SharedKey, <<"Z", "Z">>}

UnloadArgs == {<<k>> : k \in SeqKeys} \cup {<<Key_A, SharedKey>>}

Init ==
    /\ \E fs \in SeqFileSystems : dirs = fs.dirs /\ files = fs.files
    /\ env \in InitEnvs
    /\ inserted = {}
    /\ config = NoConfig
    /\ stack = <<>>
    /\ visited = {}
    /\ result = NilErr
    /\ trace = <<>>
    /\ ret = NoRet
    /\ call = "none"
    /\ budget = MaxCalls
    /\ dirsQueue = <<>>

Next ==
    \/ \E cfg \in SeqConfigs : LoadWithConfig(cfg, "LoadWithConfig")
    \/ Load
    \/ Enter
    \/ CheckEnvFile
    \/ ReadDir
    \/ Descend
    \/ \E path \in DOMAIN files \cup {<<>>} : LoadFile(path)
    \/ \E keys \in UnloadArgs : Unload(keys)
    \/ \E key \in SeqKeys, fallback \in FallbackStrings : GetStringCall(key, fallback)
    \/ \E key \in SeqKeys : GetIntCall(key, 10)
    \/ \E key \in SeqKeys : GetBoolCall(key, TRUE)
    \/ \E key \in SeqKeys : GetFloatCall(key, FallbackFloat)
    \/ \E key \in SeqKeys : MustGetStringCall(key)

Spec == Init /\ [][Next]_vars

----------------------------------------------------------------------------
(* The file format as the specification words it, stated on the raw text *)

MinOf(S) == CHOOSE x \in S : \A y \in S : x <= y

MaxOf(S) == CHOOSE x \in S : \A y \in S : x >= y

\* s from its first to its last non-blank character
Trimmed(s) ==
    LET I == {i \in 1..Len(s) : s[i] # " "}
    IN  IF I = {} THEN <<>> ELSE SubSeq(s, MinOf(I), MaxOf(I))

BlankOrComment(l) == Trimmed(l) = <<>> \/ Trimmed(l)[1] = "#"

EqPositions(l) == {i \in 1..Len(l) : l[i] = "="}

KeyText(l) == Trimmed(SubSeq(l, 1, MinOf(EqPositions(l)) - 1))

ValueText(l) == Trimmed(SubSeq(l, MinOf(EqPositions(l)) + 1, Len(l)))

Stripped(v) ==
    IF Len(v) >= 2 /\ v[1] = v[Len(v)] /\ v[1] \in {"\"", "'"}
    THEN SubSeq(v, 2, Len(v) - 1)
    ELSE v

NameOK(k) ==
    /\ k # <<>>
    /\ k[1] \notin Digits
    /\ \A i \in 1..Len(k) : k[i] \in UpperCase \cup LowerCase \cup Digits \cup {"_"}

IsAssignment(l) == ~BlankOrComment(l) /\ EqPositions(l) # {}

Malformed(l) == ~BlankOrComment(l) /\ (EqPositions(l) = {} \/ ~NameOK(KeyText(l)))

\* The lines among the first n that assign key
Assigning(lines, n, key) == {i \in 1..n : IsAssignment(lines[i]) /\ KeyText(lines[i]) = key}

LastValue(lines, n, key) == Stripped(ValueText(lines[MaxOf(Assigning(lines, n, key))]))

\* The environment once the first n lines are committed on top of before
ExpectedEnv(before, lines, n) ==
    LET keys == {KeyText(lines[i]) : i \in {j \in 1..n : IsAssignment(lines[j])}}
    IN  {p \in before : p[1] \notin keys} \cup {<<k, LastValue(lines, n, k)>> : k \in keys}

\* The last call was a LoadFile of an existing file
FileLoaded ==
    /\ call = "LoadFile"
    /\ Len(trace) = 1
    /\ trace[1].path \in DOMAIN files

LoadedLines == files[trace[1].path]

----------------------------------------------------------------------------
(* C4: after a successful LoadFile, GetString of a key the file assigns
   returns the value of the last line assigning it: the text after the first
   "=", trimmed, with one outer pair of matching quotes removed; an empty
   value is the empty string, not the fallback. *)
C4_LastValueRead ==
    (/\ FileLoaded
     /\ result = NilErr
     /\ ret.op = "GetString"
     /\ Assigning(LoadedLines, Len(LoadedLines), ret.key) # {})
    => ret.val = LastValue(LoadedLines, Len(LoadedLines), ret.key)

C4_Witness ==
    /\ FileLoaded
    /\ result = NilErr
    /\ ret.op = "GetString"
    /\ Cardinality(Assigning(LoadedLines, Len(LoadedLines), ret.key)) >= 2
    /\ LoadedLines[Len(LoadedLines)] = <<"A", "=", "\"", "x", "=", "y", "\"">>
    /\ ret.val = <<"x", "=", "y">>

(* C5: LoadFile stops at the first malformed line with the error of its
   kind; the lines before it stay committed, it and the lines after it are
   not applied. *)
C5_StopsAtFirstMalformed ==
    (/\ FileLoaded
     /\ result.kind \notin {"open", "read"}
     /\ \E i \in 1..Len(LoadedLines) : Malformed(LoadedLines[i]))
    => LET m == MinOf({i \in 1..Len(LoadedLines) : Malformed(LoadedLines[i])})
       IN  /\ result.kind = IF EqPositions(LoadedLines[m]) = {}
                            THEN "invalid format"
                            ELSE "invalid environment variable name"
           /\ result.line = m
           /\ env = ExpectedEnv(trace[1].before, LoadedLines, m - 1)

C5_Witness ==
    /\ FileLoaded
    /\ Len(LoadedLines) = 3
    /\ IsAssignment(LoadedLines[1]) /\ ~Malformed(LoadedLines[1])
    /\ Malformed(LoadedLines[2])
    /\ IsAssignment(LoadedLines[3]) /\ ~Malformed(LoadedLines[3])
    /\ KeyText(LoadedLines[3]) # KeyText(LoadedLines[1])
    /\ result.kind = "invalid environment variable name"
    /\ env # trace[1].before
    /\ KeyText(LoadedLines[3]) \notin EnvKeys(env)

----------------------------------------------------------------------------
(* The traversal claims *)

WalkCall == call \in {"LoadWithConfig", "Load"}

WalkDone == WalkCall /\ Idle

\* The path runs through no directory whose name begins with a dot
NonHiddenChain(f) == \A k \in 1..(Len(f) - 1) : f[k][1] # "."

\* The depth of the directory that holds f
DirDepth(f) == Len(f) - 1

(* C1 as claimed: with StopOnFirst, once a candidate file has been parsed
   successfully nothing more is parsed and no directory is read. *)
C1_Original ==
    (WalkCall /\ config.StopOnFirst)
    => \A i \in 1..Len(trace) :
          (trace[i].op = "parse" /\ trace[i].err = "nil") => i = Len(trace)

(* C2 as claimed: with StopOnFirst and two .env files at different depths,
   both within MaxDepth and reached through non-hidden directories, the keys
   of the deeper file stay unset. *)
C2_Original ==
    (/\ WalkDone
     /\ result = NilErr
     /\ config.StopOnFirst
     /\ Cardinality(DOMAIN files) = 2
     /\ \A f \in DOMAIN files :
           /\ Base(f) = EnvName
           /\ files[f] = GoodText(f)
           /\ NonHiddenChain(f)
           /\ DirDepth(f) <= config.MaxDepth
     /\ \E f, g \in DOMAIN files : DirDepth(f) < DirDepth(g))
    => LET deeper == CHOOSE g \in DOMAIN files : \A f \in DOMAIN files : DirDepth(f) <= DirDepth(g)
       IN  OwnKey(deeper) \notin EnvKeys(env)

(* C3: no directory deeper than MaxDepth is read and no file in one is
   parsed; when the only candidate file lies at depth k on a non-hidden
   chain, a call that returns nil has set its keys exactly when
   k <= MaxDepth. *)
C3_DepthLimit ==
    WalkCall
    => /\ \A i \in 1..Len(trace) : trace[i].depth <= config.MaxDepth
       /\ \A f \in DOMAIN files :
            (/\ Idle
             /\ result = NilErr
             /\ DOMAIN files = {f}
             /\ \E j \in 1..Len(config.EnvFiles) : config.EnvFiles[j] = Base(f)
             /\ NonHiddenChain(f))
            => (OwnKey(f) \in EnvKeys(env) <=> DirDepth(f) <= config.MaxDepth)

C3_Witness ==
    /\ WalkDone
    /\ result = NilErr
    /\ config.MaxDepth = 1
    /\ DOMAIN files = {<<Dir_a, Dir_a, Dir_a, EnvName>>}
    /\ env = {}
    /\ \E i \in 1..Len(trace) : trace[i].op = "readdir" /\ trace[i].depth = 1

----------------------------------------------------------------------------
(* The accessor claims *)

\* The value stored under the key of the last accessor call
Stored == (CHOOSE p \in env : p[1] = ret.key)[2]

Present == ret.key \in EnvKeys(env)

W_True == <<"T", "r", "u", "e">>
W_TRUE == <<"T", "R", "U", "E">>
W_False == <<"F", "a", "l", "s", "e">>
W_FALSE == <<"F", "A", "L", "S", "E">>

(* C7 as claimed: GetBool of a present key is true for true, True, TRUE and
   1, false for false and 0, and the fallback for every other value. *)
C7_Original ==
    (ret.op = "GetBool" /\ Present)
    => ret.val = IF Stored \in {Word_true, W_True, W_TRUE, <<"1">>} THEN TRUE
                 ELSE IF Stored \in {Word_false, <<"0">>} THEN FALSE
                 ELSE ret.fallback

(* C7 amended: GetBool of a present key is true for true, True, TRUE, 1, t
   and T, false for false, False, FALSE, 0, f and F, and the fallback for
   every other value. *)
C7_GetBoolSpellings ==
    (ret.op = "GetBool" /\ Present)
    => ret.val = IF Stored \in {Word_true, W_True, W_TRUE, <<"1">>, <<"t">>, <<"T">>}
                 THEN TRUE
                 ELSE IF Stored \in {Word_false, W_False, W_FALSE, <<"0">>, <<"f">>, <<"F">>}
                 THEN FALSE
                 ELSE ret.fallback

C7_Witness ==
    /\ ret.op = "GetBool"
    /\ Present
    /\ Stored = W_False
    /\ ret.fallback = TRUE
    /\ ret.val = FALSE

(* C8 as claimed: every upper/lower-case variant of true and false gives its
   boolean, whatever the fallback. *)
C8_Original ==
    (ret.op = "GetBool" /\ Present)
    => /\ Stored \in CaseVariants(Word_true) => ret.val = TRUE
       /\ Stored \in CaseVariants(Word_false) => ret.val = FALSE

(* C8 amended: of the case variants of true and false only the all-lower,
   all-upper and capitalised spellings give their boolean; every other
   variant (tRuE, fAlSe) gives the fallback. *)
C8_ThreeSpellingsOnly ==
    (ret.op = "GetBool" /\ Present)
    => /\ Stored \in CaseVariants(Word_true) =>
            ret.val = IF Stored \in {Word_true, W_True, W_TRUE} THEN TRUE ELSE ret.fallback
       /\ Stored \in CaseVariants(Word_false) =>
            ret.val = IF Stored \in {Word_false, W_False, W_FALSE} THEN FALSE ELSE ret.fallback

C8_Witness ==
    /\ ret.op = "GetBool"
    /\ Present
    /\ Stored = <<"t", "R", "u", "E">>
    /\ ret.fallback = FALSE
    /\ ret.val = FALSE

\* v is an optional sign followed by one or more decimal digits
IsDecimal(v) ==
    LET d == IF v # <<>> /\ v[1] \in {"+", "-"} THEN 1 ELSE 0
    IN  Len(v) > d /\ \A i \in (d + 1)..Len(v) : v[i] \in Digits

RECURSIVE Pow10(_)
Pow10(n) == IF n = 0 THEN 1 ELSE 10 * Pow10(n - 1)

RECURSIVE SumDigits(_, _)
SumDigits(v, I) ==
    IF I = {} THEN 0
    ELSE LET i == CHOOSE j \in I : TRUE
         IN  DigitVal(v[i]) * Pow10(Len(v) - i) + SumDigits(v, I \ {i})

DecimalValue(v) ==
    LET n == SumDigits(v, {i \in 1..Len(v) : v[i] \in Digits})
    IN  IF v[1] = "-" THEN 0 - n ELSE n

(* C9: GetInt never fails: the fallback for an absent key and for a value
   that is not wholly a base-10 integer with optional sign, the integer
   otherwise. *)
C9_GetIntFallback ==
    ret.op = "GetInt"
    => /\ ~ret.panic
       /\ ret.val = IF ~Present THEN ret.fallback
                     ELSE IF IsDecimal(Stored) THEN DecimalValue(Stored)
                     ELSE ret.fallback

C9_Witness ==
    /\ ret.op = "GetInt"
    /\ Present
    /\ Stored = <<"n", "o", "t", "-", "a", "-", "n", "u", "m", "b", "e", "r">>
    /\ ret.fallback = 10
    /\ ret.val = 10

(* C10: MustGetString panics exactly when the key is absent; a present key
   gives the stored string unchanged, the empty string included. *)
C10_MustGetString ==
    ret.op = "MustGetString"
    => /\ ret.panic <=> ~Present
       /\ Present => <<ret.key, ret.val>> \in env

C10_Witness ==
    /\ ret.op = "MustGetString"
    /\ Present
    /\ ~ret.panic
    /\ ret.val = <<>>

----------------------------------------------------------------------------
(* C6: every key the parser has put into the environment, in any sequence of
   Load, LoadWithConfig and LoadFile calls, is non-empty, begins with a
   letter or an underscore and holds only letters, digits and underscores. *)
C6_InsertedKeysValid ==
    \A k \in inserted :
        /\ k # <<>>
        /\ k[1] \in UpperCase \cup LowerCase \cup {"_"}
        /\ \A i \in 2..Len(k) : k[i] \in UpperCase \cup LowerCase \cup Digits \cup {"_"}

C6_Witness ==
    /\ budget = 0
    /\ Idle
    /\ call = "Load"
    /\ result.cause = "invalid environment variable name"
    /\ {<<"_", "a", "1">>, Key_A} \subseteq inserted

----------------------------------------------------------------------------
(* C11: after Unload(keys) has returned, it returned nil, every key of keys
   is absent, every other key has the value it had before the call, whether
   or not a load had set it, and GetString of a key of keys returns the
   fallback. *)
C11_UnloadExactly ==
    call = "Unload"
    => LET keys  == trace[1].path
           named == {keys[i] : i \in 1..Len(keys)}
       IN  /\ result = NilErr
           /\ EnvKeys(env) \cap named = {}
           /\ \A p \in trace[1].before : p[1] \notin named => p \in env
           /\ env \subseteq trace[1].before
           /\ (ret.op = "GetString" /\ ret.key \in named) => ret.val = ret.fallback

\* Unload of a key a load had set and a key only the caller had set
C11_Witness ==
    /\ call = "Unload"
    /\ trace[1].path = <<Key_A, SharedKey>>
    /\ SharedKey \in inserted
    /\ Key_A \notin inserted
    /\ {Key_A, SharedKey} \subseteq EnvKeys(trace[1].before)
    /\ ret.op = "GetString"
    /\ ret.key = SharedKey

----------------------------------------------------------------------------
(* C12: when a directory read of a LoadWithConfig call fails, the call is
   over: it has returned an error that names the directory, and the failed
   read is the last thing the call did. *)
C12_ReadDirFailureAborts ==
    WalkCall
    => \A i \in 1..Len(trace) :
          (trace[i].op = "readdir" /\ trace[i].err # "nil")
          => /\ i = Len(trace)
             /\ Idle
             /\ result # NilErr
             /\ result.kind = "failed to read directory"
             /\ result.path = trace[i].path

\* The read of a subdirectory fails after a file of the start directory
\* has been parsed
C12_Witness ==
    /\ WalkCall
    /\ Len(trace) = 3
    /\ trace[1].op = "parse" /\ trace[1].err = "nil"
    /\ trace[2].op = "readdir" /\ trace[2].err = "nil"
    /\ trace[3].op = "readdir" /\ trace[3].err # "nil" /\ trace[3].depth = 1
    /\ result.path = <<Dir_a>>

----------------------------------------------------------------------------
(* C13: when the file given to LoadFile is missing, cannot be opened or
   cannot be read to its end, LoadFile returns an error; when the open
   failed the environment is as it was before the call. *)
C13_IOErrorReturned ==
    call = "LoadFile"
    => LET ev       == trace[1]
           openFail == ev.path \notin DOMAIN files \cup dirs \/ ~ev.io.open
           readFail == ev.path \in dirs \/ ev.io.failAt # -1
       IN  /\ (openFail \/ readFail) => result # NilErr
           /\ openFail => env = ev.before

\* A read error after the first line of the file has been committed
C13_Witness ==
    /\ call = "LoadFile"
    /\ trace[1].io.open
    /\ trace[1].io.failAt = 1
    /\ result.kind = "read"
    /\ env # trace[1].before

----------------------------------------------------------------------------
(* The files a walk without StopOnFirst is to parse *)

\* How often the walk parsed f, and how often it read the directory d
ParseCount(f) == Cardinality({i \in 1..Len(trace) : trace[i].op = "parse" /\ trace[i].path = f})

ReadCount(d) == Cardinality({i \in 1..Len(trace) : trace[i].op = "readdir" /\ trace[i].path = d})

\* How often the name occurs in config.EnvFiles
Occurrences(name) ==
    Cardinality({j \in 1..Len(config.EnvFiles) : config.EnvFiles[j] = name})

\* A regular file with a candidate name, at most MaxDepth deep, below no
\* hidden directory
Eligible(f) ==
    /\ f \in DOMAIN files
    /\ Occurrences(Base(f)) > 0
    /\ NonHiddenChain(f)
    /\ DirDepth(f) <= config.MaxDepth

CompleteWalk == WalkDone /\ result = NilErr /\ ~config.StopOnFirst

(* C14 as claimed: without StopOnFirst and without an error every eligible
   file is parsed exactly once and no directory is read twice. *)
C14_Original ==
    CompleteWalk
    => /\ \A f \in DOMAIN files : Eligible(f) => ParseCount(f) = 1
       /\ \A d \in dirs : ReadCount(d) <= 1

(* C14, amended: without StopOnFirst and without an error every eligible
   file is parsed once for each occurrence of its name in EnvFiles (once
   when EnvFiles repeats no name), no other file is parsed, and no directory
   is read twice. *)
C14_ParsedOncePerName ==
    CompleteWalk
    => /\ \A f \in DOMAIN files :
            ParseCount(f) = IF Eligible(f) THEN Occurrences(Base(f)) ELSE 0
       /\ \A d \in dirs : ReadCount(d) <= 1

\* Two candidates of one subdirectory, both parsed
C14_Witness ==
    /\ CompleteWalk
    /\ config.EnvFiles = <<EnvLocalName, EnvName>>
    /\ DOMAIN files = {<<Dir_a, EnvName>>, <<Dir_a, EnvLocalName>>}
    /\ config.MaxDepth = 1
    /\ ParseCount(<<Dir_a, EnvName>>) = 1
    /\ ParseCount(<<Dir_a, EnvLocalName>>) = 1

----------------------------------------------------------------------------
(* The store as the history of committed lines determines it *)

\* The lines of the parsed file that were committed: those before the first
\* malformed line, among the lines the scanner delivered
CommittedLines(ev) ==
    IF ev.path \notin DOMAIN files \/ ~ev.io.open THEN 0
    ELSE LET lines == files[ev.path]
             bad   == {i \in 1..Len(lines) : Malformed(lines[i])}
             read  == IF ev.io.failAt = -1 THEN Len(lines) ELSE ev.io.failAt
         IN  IF bad # {} /\ MinOf(bad) - 1 < read THEN MinOf(bad) - 1 ELSE read

\* The store after the step an event records
StoreAfter(ev) ==
    CASE ev.op = "parse" ->
            IF ev.path \in DOMAIN files
            THEN ExpectedEnv(ev.before, files[ev.path], CommittedLines(ev))
            ELSE ev.before
      [] ev.op = "unload" ->
            {p \in ev.before : \A i \in 1..Len(ev.path) : ev.path[i] # p[1]}
      [] OTHER -> ev.before

\* The last accessor call, if any, returned the stored text of its key
ReadsStore(store) ==
    LET present == ret.key \in EnvKeys(store)
        text    == (CHOOSE p \in store : p[1] = ret.key)[2]
    IN  /\ ret.op = "GetString" => ret.val = IF present THEN text ELSE ret.fallback
        /\ ret.op = "MustGetString" => (ret.panic <=> ~present) /\ (present => ret.val = text)
        /\ ret.op \in {"GetInt", "GetBool", "GetFloat"} /\ ~present => ret.val = ret.fallback

AccessorStep == ret' # ret /\ ret'.op # "none"

(* C15: in any sequence of calls, an accessor call (GetString, GetInt,
   GetBool, GetFloat, MustGetString) leaves the environment as it is, and
   between calls the environment holds, for every key, the value of the most
   recent committed line that assigned it, unless a later Unload removed
   it; that is what a read returns. *)
C15_ReadsLastCommitted ==
    /\ [][AccessorStep => env' = env]_vars
    /\ [](trace # <<>>
           => /\ \A i \in 2..Len(trace) : trace[i].before = StoreAfter(trace[i - 1])
              /\ Idle => (env = StoreAfter(trace[Len(trace)])
                           /\ ReadsStore(StoreAfter(trace[Len(trace)]))))

\* A second load overwrote a key of the first, and GetFloat then read it
C15_Witness ==
    /\ Idle
    /\ budget = 0
    /\ call = "LoadFile"
    /\ result # NilErr
    /\ <<Key_A, <<"q">>>> \in trace[1].before
    /\ <<Key_A, <<"7">>>> \in env
    /\ ret.op = "GetFloat"
    /\ ret.key = Key_A
    /\ ret.val = Float(7, 0)

----------------------------------------------------------------------------
(* The earlier, queue-based Load of goenv.go *)

\* strings.Split(s, sep) for a one-character separator
RECURSIVE Split(_, _)
Split(s, c) ==
    LET i == IndexFrom(s, c, 1)
    IN  IF i = 0 THEN <<s>>
        ELSE <<SubSeq(s, 1, i - 1)>> \o Split(SubSeq(s, i + 1, Len(s)), c)

\* The loop of the earlier loadVarsFromFile over the lines of the file: a
\* line with exactly one "=" is set, any other line is passed over
RECURSIVE goenv_setLines(_, _, _, _)
goenv_setLines(lines, i, e, set) ==
    IF i > Len(lines) THEN [env |-> e, set |-> set, err |-> NilErr]
    ELSE LET line  == lines[i]
             parts == Split(line, "=")
         IN  IF line = <<>> \/ HasPrefix(line, <<"#">>) \/ Len(parts) # 2
             THEN goenv_setLines(lines, i + 1, e, set)
             ELSE LET key   == TrimSpace(parts[1])
                      value == TrimSpace(parts[2])
                  IN  IF SetenvFails(key)
                      THEN [env |-> e, set |-> set, err |-> Err("setenv", NoPath, i, key, "")]
                      ELSE goenv_setLines(lines, i + 1, Setenv(e, key, value),
                                          set \cup {key})

\* loadVarsFromFile of goenv.go; readOk is the outcome of os.ReadFile
goenv_loadVarsFromFile(path, e, readOk) ==
    IF path \notin DOMAIN files \/ ~readOk
    THEN [env |-> e, set |-> {}, err |-> Err("read", path, 0, <<>>, "")]
    ELSE goenv_setLines(files[path], 1, e, {})

\* getPaths(newDirs, basePath)
getPaths(newDirs, basePath) ==
    [i \in 1..Len(newDirs) |-> Join(basePath, newDirs[i].name)]

pushFront(queue, paths) == <<Head(queue)>> \o paths \o Tail(queue)

\* dirsQueue = append(dirsQueue, getPaths(children, path)...)
enqueue(queue, paths) == queue \o paths

\* Load() of goenv.go up to its loop
goenv_Load ==
    /\ MayCall
    /\ dirsQueue = <<>>
    /\ dirsQueue' = <<<<>>>>
    /\ result' = Running
    /\ trace' = <<>>
    /\ ret' = NoRet
    /\ call' = "goenv.Load"
    /\ budget' = budget - 1
    /\ UNCHANGED <<dirs, files, env, inserted, config, stack, visited>>

\* return from the loop: the queue is dropped
goenv_Return(err) ==
    /\ dirsQueue' = <<>>
    /\ result' = err

\* One iteration of "for len(dirsQueue) > 0", and "return nil" when the
\* queue is empty after it
goenv_Visit ==
    /\ dirsQueue # <<>>
    /\ LET path == Head(dirsQueue)
           kept(q) == /\ dirsQueue' = Tail(q)
                      /\ result' = IF Tail(q) = <<>> THEN NilErr ELSE Running
       IN  \E statOk \in BOOLEAN, readOk \in BOOLEAN :
             IF ~statOk
             THEN /\ goenv_Return(Err("stat", path, 0, <<>>, ""))
                  /\ trace' = Append(trace, Event("stat", path, Len(path), "stat"))
                  /\ UNCHANGED <<env, inserted>>
             ELSE IF path \in dirs
             THEN /\ IF readOk
                     THEN kept(enqueue(dirsQueue, getPaths(ReadDirEntries(path), path)))
                     ELSE goenv_Return(Err("readdir", path, 0, <<>>, ""))
                  /\ trace' = Append(trace, Event("readdir", path, Len(path),
                                                  IF readOk THEN "nil" ELSE "read"))
                  /\ UNCHANGED <<env, inserted>>
             ELSE IF Base(path) = EnvName
             THEN LET r == goenv_loadVarsFromFile(path, env, readOk)
                  IN  /\ env' = r.env
                      /\ inserted' = inserted \cup r.set
                      /\ goenv_Return(r.err)
                      /\ trace' = Append(trace, Event("parse", path, Len(path), r.err.kind))
             ELSE /\ kept(dirsQueue)
                  /\ trace' = Append(trace, Event("skip", path, Len(path), "nil"))
                  /\ UNCHANGED <<env, inserted>>
    /\ UNCHANGED <<dirs, files, config, stack, visited, ret, call, budget>>

\* Trees whose files hold, besides well-formed lines, lines the earlier
\* parser passes over and a line os.Setenv rejects
QueueText(path) ==
    <<OwnKey(path) \o <<"=", "1">>, <<"n", "o">>, <<"A", "=", "b", "=", "c">>, <<"=", "v">>,
      SharedKey \o <<"=">> \o PathTag(path)>>

QueueFileSystems ==
    FileSystems \cup
    { [dirs |-> Ancestors({f}), files |-> [g \in {f} |-> QueueText(f)]] : f \in Slots }

InitQueue ==
    /\ \E fs \in QueueFileSystems : dirs = fs.dirs /\ files = fs.files
    /\ env \in InitEnvs
    /\ inserted = {}
    /\ config = NoConfig
    /\ stack = <<>>
    /\ visited = {}
    /\ result = NilErr
    /\ trace = <<>>
    /\ ret = NoRet
    /\ call = "none"
    /\ budget = 1
    /\ dirsQueue = <<>>

NextQueue == goenv_Load \/ goenv_Visit

SpecQueue == InitQueue /\ [][NextQueue]_vars

----------------------------------------------------------------------------
(* C16: the queue-based Load visits the entries of the tree level by level;
   when no stat or read fails it returns after loading exactly one regular
   file named .env, one of least depth, if the tree holds any, and returns
   nil with the environment as it was if the tree holds none. *)
QueueDone == call = "goenv.Load" /\ result # Running

\* The regular files named .env
EnvFilesOfTree == {f \in DOMAIN files : Base(f) = EnvName}

Parsed == {i \in 1..Len(trace) : trace[i].op = "parse"}

C16_QueueLoadsShallowest ==
    call = "goenv.Load"
    => /\ \A i, j \in 1..Len(trace) : i < j => trace[i].depth <= trace[j].depth
       /\ \A i, j \in 1..Len(trace) : i < j => trace[i].path # trace[j].path
       /\ (QueueDone /\ result.kind \notin {"stat", "readdir", "read"})
          => IF EnvFilesOfTree = {}
             THEN /\ result = NilErr
                  /\ Parsed = {}
                  /\ env = trace[1].before
                  /\ {trace[i].path : i \in 1..Len(trace)} = dirs \cup DOMAIN files
             ELSE /\ Parsed = {Len(trace)}
                  /\ LET f == trace[Len(trace)].path
                     IN  /\ f \in EnvFilesOfTree
                         /\ \A g \in EnvFilesOfTree : Len(f) <= Len(g)
                         /\ \A p \in dirs \cup DOMAIN files :
                               Len(p) < Len(f) => \E i \in 1..Len(trace) : trace[i].path = p
                         /\ OwnKey(f) \in EnvKeys(env)
                         /\ \A g \in EnvFilesOfTree \ {f} : OwnKey(g) \notin EnvKeys(env)

\* b/.env is loaded although a/a, which holds a .env too, is met first
C16_Witness ==
    /\ QueueDone
    /\ result = NilErr
    /\ DOMAIN files = {<<Dir_b, EnvName>>, <<Dir_a, Dir_a, EnvName>>}
    /\ trace[Len(trace)].path = <<Dir_b, EnvName>>
    /\ \E i \in 1..Len(trace) : trace[i].path = <<Dir_a, Dir_a>>
    /\ OwnKey(<<Dir_b, EnvName>>) \in EnvKeys(env)

----------------------------------------------------------------------------
(* C17: LoadWithConfig reads no directory and parses no file below a
   directory whose name begins with a dot, whatever MaxDepth is; in every
   directory it does visit, a candidate is matched although its own name
   begins with a dot: by the time the directory is read, each of its
   existing candidates has been parsed. *)
C17_HiddenDirsSkipped ==
    WalkCall
    => \A i \in 1..Len(trace) :
          LET ev == trace[i]
          IN  /\ ev.op = "parse" => NonHiddenChain(ev.path)
              /\ ev.op = "readdir"
                 => /\ \A k \in 1..Len(ev.path) : ev.path[k][1] # "."
                    /\ \A n \in 1..Len(config.EnvFiles) :
                          LET f == Join(ev.path, config.EnvFiles[n])
                          IN  (f \in DOMAIN files /\ f[Len(f)][1] = ".")
                              => \E j \in 1..(i - 1) :
                                    trace[j].op = "parse" /\ trace[j].path = f

\* A complete walk that parsed a/.env and left .g/.env alone
C17_Witness ==
    /\ CompleteWalk
    /\ config.MaxDepth = 1
    /\ DOMAIN files = {<<Dir_g, EnvName>>, <<Dir_a, EnvName>>}
    /\ ParseCount(<<Dir_a, EnvName>>) = 1
    /\ ParseCount(<<Dir_g, EnvName>>) = 0
    /\ OwnKey(<<Dir_g, EnvName>>) \notin EnvKeys(env)
    /\ ReadCount(<<Dir_a>>) = 1

----------------------------------------------------------------------------
(* C18: every LoadWithConfig call returns, with nil or with an error, on
   every tree and under every Config. *)
C18_WalkReturns == (stack # <<>>) ~> (stack = <<>> /\ result # Running)

\* A call that went two levels down and came back with nil
C18_Witness ==
    /\ WalkDone
    /\ call = "Load"
    /\ result = NilErr
    /\ DOMAIN files = {<<Dir_a, Dir_a, Dir_a, EnvName>>}
    /\ ParseCount(<<Dir_a, Dir_a, Dir_a, EnvName>>) = 1
    /\ ReadCount(<<Dir_a, Dir_a>>) = 1

----------------------------------------------------------------------------
(* The order of a walk without StopOnFirst, from the tree and the config *)

\* The existing candidates of directory d, in EnvFiles order
CandidatesOf(d) ==
    SelectSeq([j \in 1..Len(config.EnvFiles) |-> Join(d, config.EnvFiles[j])],
              LAMBDA f : f \in DOMAIN files)

\* The names of the non-hidden subdirectories of d, ascending
SubdirNames(d) ==
    SortNames({Base(p) : p \in {q \in dirs : q # <<>> /\ Parent(q) = d /\ Base(q)[1] # "."}})

\* The candidates of d, then the files below each subdirectory in turn
RECURSIVE ExpectedOrder(_, _)
RECURSIVE BelowEach(_, _, _)
ExpectedOrder(d, depth) ==
    IF depth > config.MaxDepth THEN <<>>
    ELSE CandidatesOf(d) \o BelowEach(d, SubdirNames(d), depth + 1)

BelowEach(d, names, depth) ==
    IF names = <<>> THEN <<>>
    ELSE ExpectedOrder(Join(d, Head(names)), depth) \o BelowEach(d, Tail(names), depth)

\* The files parsed, in the order of their parsing
ParsedPaths ==
    LET parses == SelectSeq(trace, LAMBDA ev : ev.op = "parse")
    IN  [i \in 1..Len(parses) |-> parses[i].path]

(* C19: a walk without StopOnFirst that ends without error has parsed the
   files in the order the tree and the config fix (candidates of a directory
   in EnvFiles order, then its subdirectories in ascending name order, depth
   first); a key several files assign has the value of the file parsed last,
   and the final store is determined by the tree, the config and the store
   before the call. *)
C19_FixedOrderLastWins ==
    CompleteWalk
    => LET order == ExpectedOrder(<<>>, 0)
       IN  /\ ParsedPaths = order
           /\ order # <<>>
              => /\ <<SharedKey, PathTag(order[Len(order)])>> \in env
                 /\ env = trace[1].before
                            \cup {<<SharedKey, PathTag(order[Len(order)])>>}
                            \cup {<<OwnKey(order[i]), <<"1">>>> : i \in 1..Len(order)}

\* The file of subdirectory b, parsed after that of the start directory,
\* decides the shared key
C19_Witness ==
    /\ CompleteWalk
    /\ ParsedPaths = <<<<EnvLocalName>>, <<Dir_b, EnvName>>>>
    /\ <<SharedKey, PathTag(<<Dir_b, EnvName>>)>> \in env

----------------------------------------------------------------------------
(* C20: when a candidate file fails to parse during LoadWithConfig, with
   or without StopOnFirst, the call is over with an error that wraps the
   parse error and names the file; nothing is parsed or read after it, and
   the lines committed before the failure, by earlier files and by the
   failing file, stay committed. *)
C20_ParseFailureAborts ==
    WalkCall
    => \A i \in 1..Len(trace) :
          LET ev == trace[i]
          IN  (ev.op = "parse" /\ ev.err # "nil")
              => /\ i = Len(trace)
                 /\ Idle
                 /\ result.kind = "failed to load"
                 /\ result.path = ev.path
                 /\ result.cause = ev.err
                 /\ env = StoreAfter(ev)
                 /\ \A j \in 1..(i - 1) :
                       trace[j].op = "parse"
                       => /\ OwnKey(trace[j].path) \in EnvKeys(env)
                          /\ OwnKey(trace[j].path) \in EnvKeys(ev.before)

\* With StopOnFirst the malformed a/.env ends the call: its first line and
\* nothing else is in the store, and b/.env is not looked at
C20_Witness ==
    /\ WalkCall
    /\ Idle
    /\ config.StopOnFirst
    /\ DOMAIN files = {<<Dir_a, EnvName>>, <<Dir_b, EnvName>>}
    /\ files[<<Dir_a, EnvName>>] = BadText(<<Dir_a, EnvName>>)
    /\ result.cause = "invalid environment variable name"
    /\ ParsedPaths = <<<<Dir_a, EnvName>>>>
    /\ env = {<<OwnKey(<<Dir_a, EnvName>>), <<"1">>>>}

====
